---- MODULE Spec2Model ----
(***************************************************************************)
(* Circuit gadgets of ironfish-zkp/src/circuits/util.rs:                   *)
(*   asset_info_preimage, slice_into_boolean_vec_le,                       *)
(*   expose_value_commitment, expose_randomized_public_key.                *)
(*                                                                         *)
(* A constraint system is the ordered log of the primitive operations the  *)
(* gadgets performed on it.  Each gadget is one action: it runs the whole  *)
(* function on the constraint system and records what it returned.         *)
(*                                                                         *)
(* TLC's integers are 32-bit signed.  u32 values are therefore drawn from  *)
(* 0 .. 2^31-1 and the wrapping product byte_length * 8 is computed        *)
(* without an intermediate overflow; amounts and scalars are drawn from    *)
(* 0 .. 2^31-1 as well, their higher bits being zero.                      *)
(***************************************************************************)
EXTENDS Integers, Sequences, FiniteSets, TLC

VARIABLES cs, call, ret

vars == <<cs, call, ret>>

(***************************************************************************)
(* Bounds of the model.                                                    *)
(***************************************************************************)
\* longest byte slice handed to slice_into_boolean_vec_le
MaxLen == 2
\* wires the surrounding circuit allocated before the gadget runs
MaxPre == 1

(***************************************************************************)
(* Option<T> and Result<T, SynthesisError>.                                *)
(***************************************************************************)
None == <<>>
Some(x) == <<x>>
IsSome(o) == Len(o) = 1
Unwrap(o) == o[1]

Ok(v) == [kind |-> "Ok", val |-> v, err |-> "-"]
Err(e) == [kind |-> "Err", val |-> <<>>, err |-> e]
\* an arithmetic-overflow panic of a build with overflow checks
Panic == [kind |-> "Panic", val |-> <<>>, err |-> "-"]
\* no gadget has returned yet
NoRet == [kind |-> "-", val |-> <<>>, err |-> "-"]

\* the SynthesisError values a primitive of the framework may return
PrimitiveErrors == {"AssignmentMissing", "Unsatisfiable"}

(***************************************************************************)
(* The constraint system.  log: the operations performed, in order;        *)
(* n: the primitive calls attempted by the gadget so far.                  *)
(* env.fail = Some([at |-> k, err |-> e]) makes the k-th primitive call    *)
(* of the gadget fail with e; env.overflowChecks tells whether the build   *)
(* panics on integer overflow.                                             *)
(***************************************************************************)
PreWire(i) == [op |-> "alloc", name |-> "pre " \o ToString(i - 1) \o "/boolean"]

FreshCS(pre) == [log |-> [i \in 1..pre |-> PreWire(i)], n |-> 0]

\* cs.namespace(|| name) under the namespace path ns
Namespace(ns, name) == IF ns = "" THEN name ELSE ns \o "/" \o name

\* format!("bit {}", i)
BitName(i) == "bit " \o ToString(i)

Fails(c, env) == IsSome(env.fail) /\ Unwrap(env.fail).at = c.n + 1

Failed(c, env) == [cs |-> [c EXCEPT !.n = c.n + 1], res |-> Err(Unwrap(env.fail).err)]

Done(c, entry, v) ==
    [cs |-> [log |-> Append(c.log, entry), n |-> c.n + 1], res |-> Ok(v)]

\* a Boolean: the wire (log entry and position in its output) and its witness
Bit(c, pos, b) == [entry |-> Len(c.log) + 1, pos |-> pos, value |-> b]

\* Boolean::from(AllocatedBit::alloc(cs, b)?) in the namespace ns
AllocatedBit_alloc(c, env, ns, b) ==
    IF Fails(c, env) THEN Failed(c, env)
    ELSE Done(c, [op |-> "alloc", name |-> Namespace(ns, "boolean")], Bit(c, 0, b))

(***************************************************************************)
(* slice_into_boolean_vec_le                                               *)
(***************************************************************************)
\* u32 byte_length * 8 overflows
MulOverflows(byte_length) == byte_length > 536870911

\* byte_length * 8 in u32 arithmetic, wrapping: (byte_length * 8) mod 2^32
bit_length(byte_length) == (byte_length % 536870912) * 8

\* (0..8).map(move |i| Some((v >> i) & 1 == 1))
\* variant: most significant bit first
ByteBits_msb(v) == [i \in 1..8 |-> Some((v \div (2 ^ (8 - i))) % 2 = 1)]
ByteBits(v) == [i \in 1..8 |-> Some((v \div (2 ^ (i - 1))) % 2 = 1)]

\* value.iter().flat_map(|&v| bits of v).collect()
FlatMapBits(value) ==
    [k \in 1..(8 * Len(value)) |-> ByteBits(value[((k - 1) \div 8) + 1])[((k - 1) % 8) + 1]]

\* variant: without a value, one unset witness per byte
Values_unset_per_byte(value, byte_length) ==
    IF IsSome(value) THEN FlatMapBits(Unwrap(value))
    ELSE [i \in 1..(byte_length % 536870912) |-> None]

Values(value, byte_length) ==
    IF IsSome(value) THEN FlatMapBits(Unwrap(value))
    ELSE [i \in 1..bit_length(byte_length) |-> None]

\* variant: a failed allocation is dropped and the iteration goes on
RECURSIVE AllocBits_skip_failed(_, _, _, _, _, _)
AllocBits_skip_failed(c, env, ns, values, lo, hi) ==
    IF lo > hi THEN [cs |-> c, res |-> Ok(<<>>)]
    ELSE IF lo = hi
    THEN LET r == AllocatedBit_alloc(c, env, Namespace(ns, BitName(lo - 1)), values[lo])
         IN  [cs |-> r.cs, res |-> Ok(IF r.res.kind # "Ok" THEN <<>> ELSE <<r.res.val>>)]
    ELSE LET mid == (lo + hi) \div 2
             a == AllocBits_skip_failed(c, env, ns, values, lo, mid)
         IN  IF a.res.kind # "Ok" THEN a
             ELSE LET b == AllocBits_skip_failed(a.cs, env, ns, values, mid + 1, hi)
                  IN  IF b.res.kind # "Ok" THEN b
                      ELSE [cs |-> b.cs, res |-> Ok(a.res.val \o b.res.val)]

\* values.into_iter().enumerate().map(alloc).collect::<Result<Vec<_>, _>>()
\* for the values lo..hi: the allocations happen in index order and stop at
\* the first failure (the range is halved only to keep the evaluation shallow)
RECURSIVE AllocBits(_, _, _, _, _, _)
AllocBits(c, env, ns, values, lo, hi) ==
    IF lo > hi THEN [cs |-> c, res |-> Ok(<<>>)]
    ELSE IF lo = hi
    THEN LET r == AllocatedBit_alloc(c, env, Namespace(ns, BitName(lo - 1)), values[lo])
         IN  IF r.res.kind # "Ok" THEN r ELSE [cs |-> r.cs, res |-> Ok(<<r.res.val>>)]
    ELSE LET mid == (lo + hi) \div 2
             a == AllocBits(c, env, ns, values, lo, mid)
         IN  IF a.res.kind # "Ok" THEN a
             ELSE LET b == AllocBits(a.cs, env, ns, values, mid + 1, hi)
                  IN  IF b.res.kind # "Ok" THEN b
                      ELSE [cs |-> b.cs, res |-> Ok(a.res.val \o b.res.val)]

LengthCheck(a, byte_length) ==
    IF Len(a.res.val) # bit_length(byte_length)
    THEN [cs |-> a.cs, res |-> Err("Unsatisfiable")]
    ELSE a

\* variant: the length is checked before any wire is allocated
slice_check_first(c, env, ns, value, byte_length) ==
    IF env.overflowChecks /\ MulOverflows(byte_length)
    THEN [cs |-> c, res |-> Panic]
    ELSE LET values == Values(value, byte_length)
         IN  IF Len(values) # bit_length(byte_length)
             THEN [cs |-> c, res |-> Err("Unsatisfiable")]
             ELSE AllocBits(c, env, ns, values, 1, Len(values))

slice_into_boolean_vec_le(c, env, ns, value, byte_length) ==
    IF env.overflowChecks /\ MulOverflows(byte_length)
    THEN [cs |-> c, res |-> Panic]
    ELSE LET values == Values(value, byte_length)
             a == AllocBits(c, env, ns, values, 1, Len(values))
         IN  IF a.res.kind # "Ok" THEN a ELSE LengthCheck(a, byte_length)

(***************************************************************************)
(* Curve points.  The three generators and the asset public key's base are *)
(* independent points of the group: a point is its coefficients on them.   *)
(***************************************************************************)
Identity == [gv |-> 0, gr |-> 0, ga |-> 0, pk |-> 0]
VALUE_COMMITMENT_VALUE_GENERATOR == [gv |-> 1, gr |-> 0, ga |-> 0, pk |-> 0]
VALUE_COMMITMENT_RANDOMNESS_GENERATOR == [gv |-> 0, gr |-> 1, ga |-> 0, pk |-> 0]
ASSET_KEY_GENERATOR == [gv |-> 0, gr |-> 0, ga |-> 1, pk |-> 0]
\* a point outside the span of the generators
BasePoint == [gv |-> 0, gr |-> 0, ga |-> 0, pk |-> 1]

PointAdd(p, q) ==
    [gv |-> p.gv + q.gv, gr |-> p.gr + q.gr, ga |-> p.ga + q.ga, pk |-> p.pk + q.pk]

ScalarMul(k, p) ==
    [gv |-> k * p.gv, gr |-> k * p.gr, ga |-> k * p.ga, pk |-> k * p.pk]

(***************************************************************************)
(* Primitives of the proving framework, as the gadgets use them.  Each is  *)
(* one operation on the constraint system, in the namespace it is given.   *)
(***************************************************************************)
\* bits of the curve point's representation
ReprLen == 256
\* bits of a u64
U64Bits == 64
\* bits of a scalar field element
FrNumBits == 252

\* bit i (from 0) of v < 2^31
BitOf(v, i) == IF i >= 31 THEN FALSE ELSE (v \div (2 ^ i)) % 2 = 1

\* the value the little-endian bits lo..hi, of known witness, encode
RECURSIVE Decode(_, _, _)
Decode(bits, lo, hi) ==
    IF lo > hi THEN 0
    ELSE IF lo = hi THEN (IF Unwrap(bits[lo].value) THEN 1 ELSE 0)
    ELSE LET mid == (lo + hi) \div 2
             low == Decode(bits, lo, mid)
             high == Decode(bits, mid + 1, hi)
         IN  IF high = 0 THEN low ELSE low + (2 ^ (mid - lo + 1)) * high

DecodeLE(bits) == Decode(bits, 1, Len(bits))

AllKnown(bits) == \A i \in 1..Len(bits) : IsSome(bits[i].value)

\* little-endian bits of an optional integer, one operation allocating width wires
IntoBooleanVecLE(c, env, ns, op, v, width) ==
    IF Fails(c, env) THEN Failed(c, env)
    ELSE Done(c, [op |-> op, name |-> ns],
              [i \in 1..width |->
                  Bit(c, i - 1, IF IsSome(v) THEN Some(BitOf(Unwrap(v), i - 1)) ELSE None)])

\* boolean::u64_into_boolean_vec_le
u64_into_boolean_vec_le(c, env, ns, v) ==
    IntoBooleanVecLE(c, env, ns, "u64_into_boolean_vec_le", v, U64Bits)

\* boolean::field_into_boolean_vec_le
field_into_boolean_vec_le(c, env, ns, v) ==
    IntoBooleanVecLE(c, env, ns, "field_into_boolean_vec_le", v, FrNumBits)

\* the representation of a point: an integer that tells the sampled points apart
PointCode(p) == p.gv + 2 * p.gr + 4 * p.ga + 8 * p.pk

\* EdwardsPoint::repr
EdwardsPoint_repr(c, env, ns, point) ==
    IntoBooleanVecLE(c, env, ns, "repr",
                     IF IsSome(point) THEN Some(PointCode(Unwrap(point))) ELSE None, ReprLen)

\* ecc::fixed_base_multiplication
fixed_base_multiplication(c, env, ns, base, by) ==
    IF Fails(c, env) THEN Failed(c, env)
    ELSE Done(c, [op |-> "fixed_base_multiplication", name |-> ns],
              IF AllKnown(by) THEN Some(ScalarMul(DecodeLE(by), base)) ELSE None)

\* EdwardsPoint::add
EdwardsPoint_add(c, env, ns, p, q) ==
    IF Fails(c, env) THEN Failed(c, env)
    ELSE Done(c, [op |-> "add", name |-> ns],
              IF IsSome(p) /\ IsSome(q) THEN Some(PointAdd(Unwrap(p), Unwrap(q))) ELSE None)

\* EdwardsPoint::inputize
EdwardsPoint_inputize(c, env, ns, p) ==
    IF Fails(c, env) THEN Failed(c, env)
    ELSE Done(c, [op |-> "inputize", name |-> ns, point |-> p], <<>>)

(***************************************************************************)
(* asset_info_preimage                                                     *)
(***************************************************************************)
NameLen == 32
MetadataLen == 76
NonceLen == 1

\* variant: the new bits are put in front
Extend_swapped(acc, r) == [cs |-> r.cs, res |-> Ok(r.res.val \o acc)]
\* combined_preimage.extend(bits)
Extend(acc, r) == [cs |-> r.cs, res |-> Ok(acc \o r.res.val)]

asset_info_preimage(c, env, ns, name, metadata, asset_public_key, nonce) ==
    LET r1 == EdwardsPoint_repr(c, env, Namespace(ns, "booleanize asset_public_key"),
                                asset_public_key)
    IN  IF r1.res.kind # "Ok" THEN r1 ELSE
    LET p1 == Extend(<<>>, r1)
        r2 == slice_into_boolean_vec_le(p1.cs, env, Namespace(ns, "booleanize name"),
                                        Some(name), NameLen)
    IN  IF r2.res.kind # "Ok" THEN r2 ELSE
    LET p2 == Extend(p1.res.val, r2)
        r3 == slice_into_boolean_vec_le(p2.cs, env, Namespace(ns, "booleanize metadata"),
                                        Some(metadata), MetadataLen)
    IN  IF r3.res.kind # "Ok" THEN r3 ELSE
    LET p3 == Extend(p2.res.val, r3)
        \* slice::from_ref(nonce)
        r4 == slice_into_boolean_vec_le(p3.cs, env, Namespace(ns, "booleanize nonce"),
                                        Some(<<nonce>>), NonceLen)
    IN  IF r4.res.kind # "Ok" THEN r4 ELSE Extend(p3.res.val, r4)

(***************************************************************************)
(* expose_value_commitment                                                 *)
(***************************************************************************)
\* value_commitment.as_ref().map(|c| c.value)
MapValue(vc) == IF IsSome(vc) THEN Some(Unwrap(vc).value) ELSE None
\* variant: the amount is taken for the blinding factor
MapRandomness_value(vc) == IF IsSome(vc) THEN Some(Unwrap(vc).value) ELSE None
\* value_commitment.as_ref().map(|c| c.randomness)
MapRandomness(vc) == IF IsSome(vc) THEN Some(Unwrap(vc).randomness) ELSE None

\* variant: both bit encodings first, then both multiplications
expose_value_commitment_encode_first(c, env, ns, value_commitment) ==
    LET value_bits == u64_into_boolean_vec_le(c, env, Namespace(ns, "value"),
                                              MapValue(value_commitment))
    IN  IF value_bits.res.kind # "Ok" THEN value_bits ELSE
    LET rcv_bits == field_into_boolean_vec_le(value_bits.cs, env, Namespace(ns, "rcv"),
                                              MapRandomness(value_commitment))
    IN  IF rcv_bits.res.kind # "Ok" THEN rcv_bits ELSE
    LET value == fixed_base_multiplication(rcv_bits.cs, env,
                     Namespace(ns, "compute the value in the exponent"),
                     VALUE_COMMITMENT_VALUE_GENERATOR, value_bits.res.val)
    IN  IF value.res.kind # "Ok" THEN value ELSE
    LET rcv == fixed_base_multiplication(value.cs, env,
                   Namespace(ns, "computation of rcv"),
                   VALUE_COMMITMENT_RANDOMNESS_GENERATOR, rcv_bits.res.val)
    IN  IF rcv.res.kind # "Ok" THEN rcv ELSE
    LET cv == EdwardsPoint_add(rcv.cs, env, Namespace(ns, "computation of cv"),
                               value.res.val, rcv.res.val)
    IN  IF cv.res.kind # "Ok" THEN cv ELSE
    LET inp == EdwardsPoint_inputize(cv.cs, env, Namespace(ns, "commitment point"),
                                     cv.res.val)
    IN  IF inp.res.kind # "Ok" THEN inp
        ELSE [cs |-> inp.cs, res |-> Ok(value_bits.res.val)]

expose_value_commitment(c, env, ns, value_commitment) ==
    LET value_bits == u64_into_boolean_vec_le(c, env, Namespace(ns, "value"),
                                              MapValue(value_commitment))
    IN  IF value_bits.res.kind # "Ok" THEN value_bits ELSE
    LET value == fixed_base_multiplication(value_bits.cs, env,
                     Namespace(ns, "compute the value in the exponent"),
                     VALUE_COMMITMENT_VALUE_GENERATOR, value_bits.res.val)
    IN  IF value.res.kind # "Ok" THEN value ELSE
    LET rcv_bits == field_into_boolean_vec_le(value.cs, env, Namespace(ns, "rcv"),
                                              MapRandomness(value_commitment))
    IN  IF rcv_bits.res.kind # "Ok" THEN rcv_bits ELSE
    LET rcv == fixed_base_multiplication(rcv_bits.cs, env,
                   Namespace(ns, "computation of rcv"),
                   VALUE_COMMITMENT_RANDOMNESS_GENERATOR, rcv_bits.res.val)
    IN  IF rcv.res.kind # "Ok" THEN rcv ELSE
    LET cv == EdwardsPoint_add(rcv.cs, env, Namespace(ns, "computation of cv"),
                               value.res.val, rcv.res.val)
    IN  IF cv.res.kind # "Ok" THEN cv ELSE
    LET inp == EdwardsPoint_inputize(cv.cs, env, Namespace(ns, "commitment point"),
                                     cv.res.val)
    IN  IF inp.res.kind # "Ok" THEN inp
        ELSE [cs |-> inp.cs, res |-> Ok(value_bits.res.val)]

(***************************************************************************)
(* expose_randomized_public_key                                            *)
(***************************************************************************)
\* variant: the randomizer multiplies the value generator
expose_randomized_public_key_value_base(c, env, ns, public_key_randomness, asset_public_key) ==
    LET bits == field_into_boolean_vec_le(c, env, Namespace(ns, "public key randomness"),
                                          public_key_randomness)
    IN  IF bits.res.kind # "Ok" THEN bits ELSE
    LET pkr == fixed_base_multiplication(bits.cs, env, Namespace(ns, "asset public key"),
                                         VALUE_COMMITMENT_VALUE_GENERATOR, bits.res.val)
    IN  IF pkr.res.kind # "Ok" THEN pkr ELSE
    LET rpk == EdwardsPoint_add(pkr.cs, env,
                   Namespace(ns, "computation of randomized public key"),
                   asset_public_key, pkr.res.val)
    IN  IF rpk.res.kind # "Ok" THEN rpk ELSE
    LET inp == EdwardsPoint_inputize(rpk.cs, env,
                   Namespace(ns, "inputize randomized public key"), rpk.res.val)
    IN  IF inp.res.kind # "Ok" THEN inp ELSE [cs |-> inp.cs, res |-> Ok(<<>>)]

expose_randomized_public_key(c, env, ns, public_key_randomness, asset_public_key) ==
    LET bits == field_into_boolean_vec_le(c, env, Namespace(ns, "public key randomness"),
                                          public_key_randomness)
    IN  IF bits.res.kind # "Ok" THEN bits ELSE
    LET pkr == fixed_base_multiplication(bits.cs, env, Namespace(ns, "asset public key"),
                                         ASSET_KEY_GENERATOR, bits.res.val)
    IN  IF pkr.res.kind # "Ok" THEN pkr ELSE
    LET rpk == EdwardsPoint_add(pkr.cs, env,
                   Namespace(ns, "computation of randomized public key"),
                   asset_public_key, pkr.res.val)
    IN  IF rpk.res.kind # "Ok" THEN rpk ELSE
    LET inp == EdwardsPoint_inputize(rpk.cs, env,
                   Namespace(ns, "inputize randomized public key"), rpk.res.val)
    IN  IF inp.res.kind # "Ok" THEN inp ELSE [cs |-> inp.cs, res |-> Ok(<<>>)]

(***************************************************************************)
(* Inputs.                                                                 *)
(***************************************************************************)
ByteSamples == {0, 172, 255}

RECURSIVE SeqsUpTo(_, _)
SeqsUpTo(S, n) ==
    IF n = 0 THEN {<<>>}
    ELSE LET shorter == SeqsUpTo(S, n - 1)
         IN  shorter \cup {Append(s, x) : s \in {t \in shorter : Len(t) = n - 1}, x \in S}

SliceValues == {None} \cup {Some(s) : s \in SeqsUpTo(ByteSamples, MaxLen)}

\* small lengths, and lengths whose product with 8 exceeds 2^32 - 1
ByteLengths ==
    (0..(MaxLen + 1)) \cup {536870912 + k : k \in 0..MaxLen} \cup {1073741824}

NsSamples == {"", "outer"}

\* fixed-length byte arrays
NameSamples == {[i \in 1..NameLen |-> 0], [i \in 1..NameLen |-> (i * 37) % 256]}
MetadataSamples == {[i \in 1..MetadataLen |-> 255], [i \in 1..MetadataLen |-> 200 - i]}
NonceSamples == {0, 172}

KeySamples == {None, Some(PointAdd(BasePoint, ScalarMul(3, ASSET_KEY_GENERATOR)))}
PointSamples == KeySamples \cup {Some(Identity), Some(BasePoint)}

AmountSamples == {0, 1, 2, 10, 2147483647}
ScalarSamples == {0, 1, 6, 1000003}

CommitmentSamples ==
    {None} \cup {Some([value |-> v, randomness |-> r]) :
                    v \in AmountSamples, r \in ScalarSamples}

RandomizerSamples == {None} \cup {Some(k) : k \in ScalarSamples}

\* the primitive call that fails: per gadget, the first, the last and some between
SliceFailPoints == {1, 2, 8 * MaxLen}
PreimageFailPoints ==
    {1, 2, 2 + 8 * NameLen, 1 + 8 * (NameLen + MetadataLen + NonceLen)}
CommitmentFailPoints == 1..6
RandomizerFailPoints == 1..4

Envs(failPoints) ==
    {[fail |-> f, overflowChecks |-> oc] :
        f \in {None} \cup {Some([at |-> k, err |-> e]) : k \in failPoints, e \in PrimitiveErrors},
        oc \in BOOLEAN}

NoCall == [gadget |-> "none"]

(***************************************************************************)
(* The state machine: a constraint system is created, and one gadget is    *)
(* run on it.                                                              *)
(***************************************************************************)
Init ==
    /\ \E pre \in 0..MaxPre : cs = FreshCS(pre)
    /\ call = NoCall
    /\ ret = NoRet

CallSlice ==
    /\ call = NoCall
    /\ \E value \in SliceValues, byte_length \in ByteLengths,
          ns \in NsSamples, env \in Envs(SliceFailPoints) :
          LET r == slice_into_boolean_vec_le(cs, env, ns, value, byte_length)
          IN  /\ cs' = r.cs
              /\ ret' = r.res
              /\ call' = [gadget |-> "slice_into_boolean_vec_le", ns |-> ns,
                          env |-> env, base |-> Len(cs.log),
                          value |-> value, byte_length |-> byte_length]

CallPreimage ==
    /\ call = NoCall
    /\ \E name \in NameSamples, metadata \in MetadataSamples,
          key \in KeySamples, nonce \in NonceSamples,
          ns \in NsSamples, env \in Envs(PreimageFailPoints) :
          LET r == asset_info_preimage(cs, env, ns, name, metadata, key, nonce)
          IN  /\ cs' = r.cs
              /\ ret' = r.res
              /\ call' = [gadget |-> "asset_info_preimage", ns |-> ns,
                          env |-> env, base |-> Len(cs.log),
                          name |-> name, metadata |-> metadata,
                          asset_public_key |-> key, nonce |-> nonce]

CallExposeValueCommitment ==
    /\ call = NoCall
    /\ \E vc \in CommitmentSamples, ns \in NsSamples, env \in Envs(CommitmentFailPoints) :
          LET r == expose_value_commitment(cs, env, ns, vc)
          IN  /\ cs' = r.cs
              /\ ret' = r.res
              /\ call' = [gadget |-> "expose_value_commitment", ns |-> ns,
                          env |-> env, base |-> Len(cs.log), value_commitment |-> vc]

CallExposeRandomizedPublicKey ==
    /\ call = NoCall
    /\ \E k \in RandomizerSamples, key \in PointSamples,
          ns \in NsSamples, env \in Envs(RandomizerFailPoints) :
          LET r == expose_randomized_public_key(cs, env, ns, k, key)
          IN  /\ cs' = r.cs
              /\ ret' = r.res
              /\ call' = [gadget |-> "expose_randomized_public_key", ns |-> ns,
                          env |-> env, base |-> Len(cs.log),
                          public_key_randomness |-> k, asset_public_key |-> key]

Next ==
    \/ CallSlice
    \/ CallExposeValueCommitment
    \/ CallExposeRandomizedPublicKey
    \/ CallPreimage

Spec == Init /\ [][Next]_vars

(***************************************************************************)
(* What a finished call left behind.                                       *)
(***************************************************************************)
Called(g) == call.gadget = g

\* the operations the gadget added to the constraint system
NewLog == SubSeq(cs.log, call.base + 1, Len(cs.log))

\* the failing primitive call of the environment was reached
PrimFailed == IsSome(call.env.fail) /\ cs.n >= Unwrap(call.env.fail).at

\* the full name of the wire of bit k allocated under the namespace path ns
WireName(ns, k) ==
    (IF ns = "" THEN "" ELSE ns \o "/") \o "bit " \o ToString(k) \o "/boolean"

\* (b >> i) & 1 for a byte b, written out for i = 0..7
ShiftedBit(b, i) ==
    CASE i = 0 -> b % 2
      [] i = 1 -> (b \div 2) % 2
      [] i = 2 -> (b \div 4) % 2
      [] i = 3 -> (b \div 8) % 2
      [] i = 4 -> (b \div 16) % 2
      [] i = 5 -> (b \div 32) % 2
      [] i = 6 -> (b \div 64) % 2
      [] i = 7 -> (b \div 128) % 2

Witness01(bit) == IF Unwrap(bit.value) THEN 1 ELSE 0

\* the byte the eight bits from position p (1-based) spell, least significant first
ByteAt(bits, p) ==
    Witness01(bits[p]) + 2 * Witness01(bits[p + 1]) + 4 * Witness01(bits[p + 2])
        + 8 * Witness01(bits[p + 3]) + 16 * Witness01(bits[p + 4])
        + 32 * Witness01(bits[p + 5]) + 64 * Witness01(bits[p + 6])
        + 128 * Witness01(bits[p + 7])

\* the bits lo+1 .. lo+8n of out are the wires of the log entries first+1 ..,
\* allocated as "bit 0" .. "bit 8n-1" under ns, and spell the bytes s
EncodesBytes(out, lo, first, ns, s) ==
    \A j \in 0..(Len(s) - 1) :
        /\ ByteAt(out, lo + 8 * j + 1) = s[j + 1]
        /\ \A i \in 0..7 :
              LET k == 8 * j + i
              IN  /\ out[lo + k + 1].value = Some(ShiftedBit(s[j + 1], i) = 1)
                  /\ out[lo + k + 1].entry = first + k + 1
                  /\ out[lo + k + 1].pos = 0
                  /\ cs.log[first + k + 1].op = "alloc"
                  /\ cs.log[first + k + 1].name = WireName(ns, k)

SliceGiven == Called("slice_into_boolean_vec_le") /\ IsSome(call.value)
SliceBytes == Unwrap(call.value)

(***************************************************************************)
(* C1: for a byte sequence s of length byte_length L (L <= MaxLen here, so *)
(* L * 8 does not overflow), when no primitive fails,                      *)
(* slice_into_boolean_vec_le(cs, Some(s), L) succeeds and returns exactly  *)
(* 8*L bit wires; the wire at position 8*j+i carries the witness           *)
(* (s[j] >> i) & 1: least significant bit first within each byte, bytes in *)
(* input order, and the witnesses spell s again.                           *)
(***************************************************************************)
C1_BitEncoding ==
    (SliceGiven /\ Len(SliceBytes) = call.byte_length /\ ~PrimFailed)
        => /\ ret.kind = "Ok"
           /\ Len(ret.val) = 8 * call.byte_length
           /\ Len(NewLog) = 8 * call.byte_length
           /\ EncodesBytes(ret.val, 0, call.base, call.ns, SliceBytes)

C1_Witness ==
    /\ SliceGiven
    /\ SliceBytes = <<172, 255>>
    /\ call.byte_length = 2
    /\ call.base = 1
    /\ ret.kind = "Ok"
    /\ Len(ret.val) = 16

(***************************************************************************)
(* C2: for every byte_length L, also one whose product with 8 exceeds      *)
(* 2^32 - 1, slice_into_boolean_vec_le(cs, None, L) succeeds when no       *)
(* primitive fails and returns exactly 8*L bit wires (8*L the mathematical *)
(* product), each with an unset witness.                                   *)
(***************************************************************************)
C2_ShapeOnlyLength ==
    (Called("slice_into_boolean_vec_le") /\ call.value = None /\ ~PrimFailed)
        => /\ ret.kind = "Ok"
           /\ Len(ret.val) % 8 = 0
           /\ Len(ret.val) \div 8 = call.byte_length
           /\ \A k \in 1..Len(ret.val) : ret.val[k].value = None

(***************************************************************************)
(* C3: given a byte sequence whose length differs from byte_length, and    *)
(* every wire allocation succeeding, slice_into_boolean_vec_le fails with  *)
(* Unsatisfiable and returns no bit sequence; it never returns a sequence  *)
(* whose length differs from byte_length * 8.                              *)
(***************************************************************************)
C3_LengthMismatchRejected ==
    /\ (SliceGiven /\ Len(SliceBytes) # call.byte_length /\ ~PrimFailed)
          => ret = Err("Unsatisfiable")
    /\ (SliceGiven /\ Len(SliceBytes) # call.byte_length /\ ret.kind = "Ok")
          => (Len(ret.val) % 8 = 0 /\ Len(ret.val) \div 8 = call.byte_length)

(***************************************************************************)
(* C4: a successful asset_info_preimage returns the concatenation, in this *)
(* order, of the public key's representation bits, the 256 bits of name,   *)
(* the 608 bits of metadata and the 8 bits of nonce (each least            *)
(* significant bit first); its length is len(pubkey_repr) + 256 + 608 + 8  *)
(* whatever the bytes and the point.                                       *)
(***************************************************************************)
PrefixOf(ns) == IF ns = "" THEN "" ELSE ns \o "/"

C4_PreimageOrder ==
    (Called("asset_info_preimage") /\ ret.kind = "Ok")
        => LET reprEntry == cs.log[call.base + 1]
               reprLen == Cardinality({k \in 1..Len(ret.val) : ret.val[k].entry = call.base + 1})
           IN  /\ reprEntry.op = "repr"
               /\ reprEntry.name = PrefixOf(call.ns) \o "booleanize asset_public_key"
               /\ reprLen = ReprLen
               /\ Len(ret.val) = reprLen + 256 + 608 + 8
               /\ \A k \in 1..reprLen :
                     /\ ret.val[k].entry = call.base + 1
                     /\ ret.val[k].pos = k - 1
               /\ EncodesBytes(ret.val, reprLen, call.base + 1,
                               PrefixOf(call.ns) \o "booleanize name", call.name)
               /\ EncodesBytes(ret.val, reprLen + 256, call.base + 1 + 256,
                               PrefixOf(call.ns) \o "booleanize metadata", call.metadata)
               /\ EncodesBytes(ret.val, reprLen + 256 + 608, call.base + 1 + 256 + 608,
                               PrefixOf(call.ns) \o "booleanize nonce", <<call.nonce>>)

C4_Witness ==
    /\ Called("asset_info_preimage")
    /\ ret.kind = "Ok"
    /\ call.nonce = 172
    /\ call.name[2] = 74
    /\ call.metadata[1] = 199
    /\ IsSome(call.asset_public_key)
    /\ Len(ret.val) = 1128

(***************************************************************************)
(* C5: a successful expose_value_commitment with the record (v, r)         *)
(* registers exactly one point as public input, the point                  *)
(* v*G_value + r*G_random (the neutral element for v = 0 and r = 0), and   *)
(* returns 64 bits that decode, least significant bit first, to v.         *)
(***************************************************************************)
IsInputize(e) == e.op = "inputize"

\* the public inputs the gadget registered, in order
NewInputs == SelectSeq(NewLog, IsInputize)

\* the value of 64 little-endian bits, each below 2^31 set only where v has it
DecodesTo(bits, v) ==
    \A i \in 1..Len(bits) :
        bits[i].value = Some(IF i <= 31 THEN (v \div (2 ^ (i - 1))) % 2 = 1 ELSE FALSE)

C5_ValueCommitment ==
    (Called("expose_value_commitment") /\ ret.kind = "Ok" /\ IsSome(call.value_commitment))
        => LET v == Unwrap(call.value_commitment).value
               r == Unwrap(call.value_commitment).randomness
           IN  /\ Len(NewInputs) = 1
               /\ NewInputs[1].point = Some([gv |-> v, gr |-> r, ga |-> 0, pk |-> 0])
               /\ (v = 0 /\ r = 0) => NewInputs[1].point = Some(Identity)
               /\ Len(ret.val) = 64
               /\ DecodesTo(ret.val, v)

C5_Witness ==
    /\ Called("expose_value_commitment")
    /\ ret.kind = "Ok"
    /\ call.value_commitment = Some([value |-> 10, randomness |-> 6])
    /\ Len(NewInputs) = 1
    /\ NewInputs[1].point = Some([gv |-> 10, gr |-> 6, ga |-> 0, pk |-> 0])

(***************************************************************************)
(* C6: a successful expose_randomized_public_key with randomizer k and     *)
(* public key P registers exactly one point as public input, the point     *)
(* P + k*G_asset (the asset-key generator, not the value or randomness     *)
(* generator), and returns no value.                                       *)
(***************************************************************************)
C6_RandomizedPublicKey ==
    (/\ Called("expose_randomized_public_key")
     /\ ret.kind = "Ok"
     /\ IsSome(call.public_key_randomness)
     /\ IsSome(call.asset_public_key))
        => LET k == Unwrap(call.public_key_randomness)
               P == Unwrap(call.asset_public_key)
           IN  /\ Len(NewInputs) = 1
               /\ NewInputs[1].point =
                     Some([gv |-> P.gv, gr |-> P.gr, ga |-> P.ga + k, pk |-> P.pk])
               /\ ret.val = <<>>

C6_Witness ==
    /\ Called("expose_randomized_public_key")
    /\ ret.kind = "Ok"
    /\ call.public_key_randomness = Some(6)
    /\ call.asset_public_key = Some([gv |-> 0, gr |-> 0, ga |-> 3, pk |-> 1])
    /\ NewInputs[1].point = Some([gv |-> 0, gr |-> 0, ga |-> 9, pk |-> 1])

(***************************************************************************)
(* C7: the circuit's shape does not depend on the witness.  A gadget run   *)
(* with a witness (byte sequences of the declared length) and the same     *)
(* gadget run without one, on constraint systems in the same state and in  *)
(* the same environment, perform the same operations under the same names  *)
(* in the same order, register as many public inputs, end alike and return *)
(* bit sequences of the same length.                                       *)
(***************************************************************************)
ShapeOf(log, base, res) ==
    [ops |-> [i \in 1..(Len(log) - base) |->
                 [op |-> log[base + i].op, name |-> log[base + i].name]],
     inputs |-> Cardinality({i \in (base + 1)..Len(log) : log[i].op = "inputize"}),
     kind |-> res.kind,
     outlen |-> Len(res.val)]

WitnessPresent ==
    CASE Called("slice_into_boolean_vec_le") ->
            IsSome(call.value) /\ Len(Unwrap(call.value)) = call.byte_length
      [] Called("asset_info_preimage") -> IsSome(call.asset_public_key)
      [] Called("expose_value_commitment") -> IsSome(call.value_commitment)
      [] Called("expose_randomized_public_key") ->
            IsSome(call.public_key_randomness) \/ IsSome(call.asset_public_key)
      [] OTHER -> FALSE

\* the same call on the same constraint system, every witness absent
WitnessAbsentRun ==
    CASE Called("slice_into_boolean_vec_le") ->
            slice_into_boolean_vec_le(FreshCS(call.base), call.env, call.ns,
                                      None, call.byte_length)
      [] Called("asset_info_preimage") ->
            asset_info_preimage(FreshCS(call.base), call.env, call.ns,
                                call.name, call.metadata, None, call.nonce)
      [] Called("expose_value_commitment") ->
            expose_value_commitment(FreshCS(call.base), call.env, call.ns, None)
      [] Called("expose_randomized_public_key") ->
            expose_randomized_public_key(FreshCS(call.base), call.env, call.ns, None, None)

C7_ShapeIndependentOfWitness ==
    WitnessPresent
        => ShapeOf(cs.log, call.base, ret)
              = ShapeOf(WitnessAbsentRun.cs.log, call.base, WitnessAbsentRun.res)

C7_Witness ==
    /\ Called("slice_into_boolean_vec_le")
    /\ WitnessPresent
    /\ call.byte_length = 2
    /\ ret.kind = "Ok"
    /\ WitnessAbsentRun.res.kind = "Ok"
    /\ Len(WitnessAbsentRun.res.val) = 16
    /\ WitnessAbsentRun.res.val[1].value = None
    /\ ret.val[3].value = Some(TRUE)

(***************************************************************************)
(* C8: the operations of expose_value_commitment on the constraint system. *)
(***************************************************************************)
OpsDone == [i \in 1..Len(NewLog) |-> [op |-> NewLog[i].op, name |-> NewLog[i].name]]

Step(op, ns, name) == [op |-> op, name |-> PrefixOf(ns) \o name]

\* the order of the specification's numbered steps
NumberedOrder(ns) ==
    << Step("u64_into_boolean_vec_le", ns, "value"),
       Step("field_into_boolean_vec_le", ns, "rcv"),
       Step("fixed_base_multiplication", ns, "compute the value in the exponent"),
       Step("fixed_base_multiplication", ns, "computation of rcv"),
       Step("add", ns, "computation of cv"),
       Step("inputize", ns, "commitment point") >>

\* amount bits, value point, blinding bits, randomness point, sum, registration
InterleavedOrder(ns) ==
    << Step("u64_into_boolean_vec_le", ns, "value"),
       Step("fixed_base_multiplication", ns, "compute the value in the exponent"),
       Step("field_into_boolean_vec_le", ns, "rcv"),
       Step("fixed_base_multiplication", ns, "computation of rcv"),
       Step("add", ns, "computation of cv"),
       Step("inputize", ns, "commitment point") >>

\* C8 as claimed: a successful expose_value_commitment performed its
\* operations in the order of the numbered steps: amount bits, blinding
\* bits, value multiplication, randomness multiplication, addition,
\* registration; both encodings precede both multiplications.
C8_NumberedStepOrder ==
    (Called("expose_value_commitment") /\ ret.kind = "Ok")
        => OpsDone = NumberedOrder(call.ns)

\* C8 as amended: expose_value_commitment performs, in this order, the
\* encoding of the amount, the value multiplication, the encoding of the
\* blinding factor, the randomness multiplication, the addition and the
\* registration: each encoding precedes its own multiplication, the value
\* multiplication precedes the encoding of the blinding factor, and the
\* registration is last.  A failed call performed a prefix of this order.
C8_InterleavedOrder ==
    Called("expose_value_commitment")
        => /\ Len(OpsDone) <= 6
           /\ OpsDone = SubSeq(InterleavedOrder(call.ns), 1, Len(OpsDone))
           /\ ret.kind = "Ok" => Len(OpsDone) = 6

C8_Witness ==
    /\ Called("expose_value_commitment")
    /\ ret.kind = "Ok"
    /\ call.ns = "outer"
    /\ OpsDone[2].op = "fixed_base_multiplication"
    /\ OpsDone[3] = [op |-> "field_into_boolean_vec_le", name |-> "outer/rcv"]
    /\ OpsDone[6].op = "inputize"

(***************************************************************************)
(* C9: in every gadget, when a primitive step fails the gadget returns     *)
(* that same error, performs none of its later steps (no further wire      *)
(* allocation, no public-input registration) and returns no bit sequence;  *)
(* a bit sequence or unit value is returned only if every step succeeded.  *)
(***************************************************************************)
StepsOfCall ==
    CASE Called("slice_into_boolean_vec_le") ->
            IF IsSome(call.value) THEN 8 * Len(Unwrap(call.value))
            ELSE 8 * (call.byte_length % 536870912)
      [] Called("asset_info_preimage") -> 1 + 256 + 608 + 8
      [] Called("expose_value_commitment") -> 6
      [] Called("expose_randomized_public_key") -> 4

C9_FirstFailurePropagates ==
    call # NoCall
        => /\ PrimFailed
              => /\ ret = Err(Unwrap(call.env.fail).err)
                 /\ cs.n = Unwrap(call.env.fail).at
                 /\ Len(NewLog) = Unwrap(call.env.fail).at - 1
                 /\ Len(NewInputs) = 0
           /\ ret.kind = "Ok"
              => /\ ~PrimFailed
                 /\ cs.n = StepsOfCall
                 /\ Len(NewLog) = StepsOfCall

C9_Witness ==
    /\ Called("asset_info_preimage")
    /\ PrimFailed
    /\ Unwrap(call.env.fail) = [at |-> 258, err |-> "AssignmentMissing"]
    /\ ret = Err("AssignmentMissing")
    /\ Len(NewLog) = 257

(***************************************************************************)
(* C10: the length check of slice_into_boolean_vec_le runs after the       *)
(* allocations: when it returns Unsatisfiable for a byte sequence of       *)
(* length n # byte_length, the constraint system holds the 8*n new wires   *)
(* "bit 0" .. "bit 8n-1".                                                  *)
(***************************************************************************)
LengthCheckFailed == SliceGiven /\ ret = Err("Unsatisfiable") /\ ~PrimFailed

AllocatedAll ==
    /\ Len(NewLog) = 8 * Len(SliceBytes)
    /\ \A k \in 0..(8 * Len(SliceBytes) - 1) :
          NewLog[k + 1] = [op |-> "alloc", name |-> WireName(call.ns, k)]

\* C10 as claimed: ... so the constraint system is not left unchanged by
\* the failed call.
C10_FailedCallChangesCS ==
    LengthCheckFailed
        => /\ AllocatedAll
           /\ cs.log # FreshCS(call.base).log

\* C10 as amended: when the length check returns Unsatisfiable for a
\* sequence of n # byte_length bytes, the constraint system holds the 8*n
\* new wires "bit 0" .. "bit 8n-1" after the ones it held before; it is
\* changed by the failed call exactly when n >= 1 (an empty sequence
\* allocates nothing).
C10_WiresAllocatedBeforeCheck ==
    LengthCheckFailed
        => /\ Len(SliceBytes) # call.byte_length
           /\ AllocatedAll
           /\ SubSeq(cs.log, 1, call.base) = FreshCS(call.base).log
           /\ (cs.log # FreshCS(call.base).log) <=> (Len(SliceBytes) >= 1)

C10_Witness ==
    /\ LengthCheckFailed
    /\ SliceBytes = <<172>>
    /\ call.byte_length = 2
    /\ call.base = 1
    /\ Len(cs.log) = 9
    /\ cs.log[9] = [op |-> "alloc", name |-> "bit 7/boolean"]

====
